---- MODULE Spec2Model ----
(***************************************************************************)
(* Model of telegram_bot.py: the two Telegram handlers (handle_message,    *)
(* button_callback), the callback_data codec they share, and the Overseerr *)
(* request call.  Python strings are sequences of one-character strings,   *)
(* so that split, join, startswith, int() and isdigit() are computed       *)
(* character by character as the interpreter computes them.                *)
(***************************************************************************)
EXTENDS Integers, Sequences, FiniteSets, TLC

VARIABLES last, requests, loop

vars == <<last, requests, loop>>

----------------------------------------------------------------------------
(* Bounds of the model *)

\* backend request calls recorded before the model stops delivering callbacks
MaxRequests == 2
\* season numbers 1..MaxSeasonNo (and the two-digit 10 and 99) are offered
MaxSeasonNo == 3
\* longest season list the agent's structured response carries
MaxSeasons == 5
\* updates the event loop is given in one run
MaxHandlers == 2

----------------------------------------------------------------------------
(* Python values *)

None == [none |-> TRUE]
Some(x) == [none |-> FALSE, v |-> x]

\* truthiness of an optional string / list: None and the empty one are falsy
TruthySeq(o) == (~o.none) /\ Len(o.v) > 0
\* truthiness of an optional int: None and 0 are falsy
TruthyInt(o) == (~o.none) /\ o.v # 0

----------------------------------------------------------------------------
(* Python strings *)

DigitChars == <<"0", "1", "2", "3", "4", "5", "6", "7", "8", "9">>
AsciiDigits == {DigitChars[i] : i \in 1..10}
\* str.isdigit() is also true of digit characters int() does not accept;
\* "^2" stands for the one character SUPERSCRIPT TWO
SuperscriptDigits == {"^2"}
DigitVal(c) == (CHOOSE i \in 1..10 : DigitChars[i] = c) - 1

US == <<"_">>
DASH == <<"-">>
REQUEST == <<"r", "e", "q", "u", "e", "s", "t">>
REQUEST_PREFIX == REQUEST \o US
CANCEL_REQUEST == <<"c", "a", "n", "c", "e", "l">> \o US \o REQUEST
MOVIE == <<"m", "o", "v", "i", "e">>
TV == <<"t", "v">>

RECURSIVE NatStr(_)
NatStr(n) ==
    IF n < 10 THEN <<DigitChars[n + 1]>>
    ELSE NatStr(n \div 10) \o <<DigitChars[(n % 10) + 1]>>

\* str(n) of a Python int
IntStr(n) == IF n < 0 THEN DASH \o NatStr(-n) ELSE NatStr(n)

\* "request" in s, the trailing underscore forgotten
StartsWithLoose(s, p) ==
    \E i \in 1..(Len(s) - Len(p) + 2) :
        SubSeq(s, i, i + Len(p) - 2) = SubSeq(p, 1, Len(p) - 1)

\* s.startswith(p)
StartsWith(s, p) == Len(s) >= Len(p) /\ SubSeq(s, 1, Len(p)) = p

RECURSIVE SplitFrom(_, _, _)
SplitFrom(s, c, cur) ==
    IF s = <<>> THEN <<cur>>
    ELSE IF Head(s) = c THEN <<cur>> \o SplitFrom(Tail(s), c, <<>>)
    ELSE SplitFrom(Tail(s), c, Append(cur, Head(s)))

\* s.split(c) for a one-character separator: never an empty list
Split(s, c) == SplitFrom(s, c, <<>>)

RECURSIVE Join(_, _)
\* sep.join(parts)
Join(sep, parts) ==
    IF parts = <<>> THEN <<>>
    ELSE IF Len(parts) = 1 THEN parts[1]
    ELSE parts[1] \o sep \o Join(sep, Tail(parts))

RECURSIVE StripLeft(_)
StripLeft(s) == IF s # <<>> /\ Head(s) = " " THEN StripLeft(Tail(s)) ELSE s

RECURSIVE StripRight(_)
StripRight(s) ==
    IF s # <<>> /\ s[Len(s)] = " " THEN StripRight(SubSeq(s, 1, Len(s) - 1)) ELSE s

RECURSIVE DigitsVal(_, _)
DigitsVal(s, acc) ==
    IF s = <<>> THEN acc ELSE DigitsVal(Tail(s), acc * 10 + DigitVal(Head(s)))

AllAsciiDigits(s) == Len(s) > 0 /\ \A i \in 1..Len(s) : s[i] \in AsciiDigits

\* a C-like conversion: 0 for what is no number, no error
PyIntAtoi(s) ==
    LET t == StripRight(StripLeft(s))
        signed == t # <<>> /\ Head(t) \in {"-", "+"}
        body == IF signed THEN Tail(t) ELSE t
    IN  IF AllAsciiDigits(body)
        THEN [ok |-> TRUE,
              v |-> IF signed /\ Head(t) = "-" THEN 0 - DigitsVal(body, 0)
                    ELSE DigitsVal(body, 0)]
        ELSE [ok |-> TRUE, v |-> 0]

\* int(s): surrounding blanks stripped, an optional sign, then decimal digits;
\* anything else raises ValueError (ok = FALSE)
PyInt(s) ==
    LET t == StripRight(StripLeft(s))
        signed == t # <<>> /\ Head(t) \in {"-", "+"}
        body == IF signed THEN Tail(t) ELSE t
    IN  IF AllAsciiDigits(body)
        THEN [ok |-> TRUE,
              v |-> IF signed /\ Head(t) = "-" THEN 0 - DigitsVal(body, 0)
                    ELSE DigitsVal(body, 0)]
        ELSE [ok |-> FALSE, v |-> 0]

\* s.isdigit()
IsDigit(s) ==
    Len(s) > 0 /\ \A i \in 1..Len(s) : s[i] \in AsciiDigits \cup SuperscriptDigits

RECURSIVE Insert(_, _)
Insert(x, sorted) ==
    IF sorted = <<>> THEN <<x>>
    ELSE IF x <= Head(sorted) THEN <<x>> \o sorted
    ELSE <<Head(sorted)>> \o Insert(x, Tail(sorted))

\* the list left in the order the agent gave it
Unsorted(xs) == xs

RECURSIVE Sorted(_)
\* sorted(xs) of a list of ints
Sorted(xs) == IF xs = <<>> THEN <<>> ELSE Insert(Head(xs), Sorted(Tail(xs)))

MapIntStr(xs) == [i \in 1..Len(xs) |-> IntStr(xs[i])]

\* the elements of a list
Range(xs) == {xs[i] : i \in 1..Len(xs)}

----------------------------------------------------------------------------
(* The callback_data codec *)

\* the seasons joined by the separator of the segments
EncodeUnderscore(media_type, media_id, seasons) ==
    LET seasons_str ==
            IF Len(seasons) > 0 /\ media_type = TV
            THEN US \o Join(US, MapIntStr(Sorted(seasons)))
            ELSE <<>>
    IN  REQUEST_PREFIX \o media_type \o US \o IntStr(media_id) \o seasons_str

\* handle_message, lines 257-263: the confirm button's callback_data
Encode(media_type, media_id, seasons) ==
    LET seasons_str ==
            IF Len(seasons) > 0 /\ media_type = TV
            THEN US \o Join(DASH, MapIntStr(Sorted(seasons)))
            ELSE <<>>
    IN  REQUEST_PREFIX \o media_type \o US \o IntStr(media_id) \o seasons_str

\* button_callback, line 347: [int(s) for s in seasons_str.split("-") if s.isdigit()]
ParseSeasons(seasons_str) ==
    LET kept == SelectSeq(Split(seasons_str, "-"), IsDigit)
    IN  [ok |-> \A i \in 1..Len(kept) : PyInt(kept[i]).ok,
         v |-> [i \in 1..Len(kept) |-> PyInt(kept[i]).v]]

\* the seasons parsed whatever the media type
DecodeAnySeasons(callback_data) ==
    LET parts == Split(callback_data, "_")
        raised(e) == [ok |-> FALSE, error |-> e]
    IN  IF Len(parts) < 3 THEN raised("IndexError")
        ELSE LET media_type == parts[2]
                 media_id == PyInt(parts[3])
             IN  IF ~media_id.ok THEN raised("ValueError")
                 ELSE IF Len(parts) > 3
                 THEN LET parsed == ParseSeasons(parts[4])
                      IN  IF ~parsed.ok THEN raised("ValueError")
                          ELSE [ok |-> TRUE, media_type |-> media_type,
                                media_id |-> media_id.v,
                                seasons |-> IF parsed.v = <<>> THEN None
                                            ELSE Some(parsed.v)]
                 ELSE [ok |-> TRUE, media_type |-> media_type,
                       media_id |-> media_id.v, seasons |-> None]

\* button_callback, lines 338-349: the body of the try block up to the request;
\* ok = FALSE when it raises (IndexError on parts[2], ValueError on int())
Decode(callback_data) ==
    LET parts == Split(callback_data, "_")
        raised(e) == [ok |-> FALSE, error |-> e]
    IN  IF Len(parts) < 3 THEN raised("IndexError")
        ELSE LET media_type == parts[2]
                 media_id == PyInt(parts[3])
             IN  IF ~media_id.ok THEN raised("ValueError")
                 ELSE IF Len(parts) > 3 /\ media_type = TV
                 THEN LET parsed == ParseSeasons(parts[4])
                      IN  IF ~parsed.ok THEN raised("ValueError")
                          ELSE [ok |-> TRUE, media_type |-> media_type,
                                media_id |-> media_id.v,
                                seasons |-> IF parsed.v = <<>> THEN None
                                            ELSE Some(parsed.v)]
                 ELSE [ok |-> TRUE, media_type |-> media_type,
                       media_id |-> media_id.v, seasons |-> None]

----------------------------------------------------------------------------
(* request_overseerr *)

\* how the POST to {OVERSEERR_API_URL}/request ends: a 2xx response, another
\* response, or requests.post raising (connection error, timeout)
Outcomes == {"ok", "failed", "raised"}

\* the seasons never added to the body
PayloadNoSeasons(media_id, media_type, seasons) ==
    [mediaId |-> media_id, mediaType |-> media_type, seasons |-> None]

\* data["seasons"] = seasons or []: the field always sent
PayloadSeasonsAlways(media_id, media_type, seasons) ==
    [mediaId |-> media_id, mediaType |-> media_type,
     seasons |-> IF TruthySeq(seasons) THEN seasons ELSE Some(<<>>)]

\* lines 113-120: the JSON body; seasons = None is the absent field
Payload(media_id, media_type, seasons) ==
    [mediaId |-> media_id, mediaType |-> media_type,
     seasons |-> IF media_type = TV /\ TruthySeq(seasons) THEN seasons ELSE None]

\* lines 124-137: the returned message
ResultMessage(media_id, media_type, seasons, outcome) ==
    IF outcome = "ok"
    THEN [kind |-> "Successfully requested", media_type |-> media_type,
          media_id |-> media_id,
          season_text |-> IF TruthySeq(seasons) THEN seasons ELSE None]
    ELSE [kind |-> "Failed to request", media_type |-> media_type,
          media_id |-> media_id, season_text |-> None]

\* a token already executed is not posted again
PostOnce(log, payload, via) ==
    IF \E i \in 1..Len(log) : log[i].via = via THEN log
    ELSE Append(log, [payload |-> payload, via |-> via])

\* line 123: the backend receives one more request; via records the
\* callback_data whose handling issued it
Post(log, payload, via) == Append(log, [payload |-> payload, via |-> via])

----------------------------------------------------------------------------
(* handle_message *)

\* lines 266-269: the label of the confirm button
ButtonText(media_type, seasons) ==
    IF Len(seasons) > 0 /\ media_type = TV
    THEN [text |-> "Yes, request season(s)", arg |-> Sorted(seasons)]
    ELSE [text |-> "Yes, request this", arg |-> media_type]

\* lines 229, 245-284: the inline keyboard built from the agent's structured
\* response, None when no button is attached
Keyboard(structured) ==
    IF structured.none THEN None
    ELSE IF structured.v.action # Some("offer_request") THEN None
    ELSE LET media_id == structured.v.media_id
             media_type == structured.v.media_type
             seasons == IF TruthySeq(structured.v.seasons)
                        THEN structured.v.seasons.v ELSE <<>>
         IN  IF TruthyInt(media_id) /\ TruthySeq(media_type)
             THEN Some([confirm |-> Encode(media_type.v, media_id.v, seasons),
                        button_text |-> ButtonText(media_type.v, seasons),
                        cancel |-> CANCEL_REQUEST])
             ELSE None

\* One inbound update handled by handle_message.  run is what the handler
\* meets: whether the update carries a message, how agent_executor.ainvoke
\* ends (raising, or returning messages and a structured response), the
\* status of the search result the agent selected, and whether send_message
\* succeeds.  The agent is a language model: its response is any value of
\* the OverseerrResponse schema.
HandleMessage(run) ==
    /\ requests' = requests
    /\ last' =
         IF ~run.message
         THEN [kind |-> "message", status |-> run.status, structured |-> None,
               via |-> "return", text |-> "", keyboard |-> None]
         ELSE IF run.raises
         THEN [kind |-> "message", status |-> run.status, structured |-> None,
               via |-> "reply_text",
               text |-> "Sorry, an error occurred while processing your request.",
               keyboard |-> None]
         ELSE IF ~run.final_messages
         THEN [kind |-> "message", status |-> run.status, structured |-> None,
               via |-> "reply_text",
               text |-> "Sorry, I encountered an issue processing your request.",
               keyboard |-> None]
         ELSE [kind |-> "message", status |-> run.status,
               structured |-> run.structured,
               via |-> IF (~run.structured.none) /\ run.structured.v.poster_url
                          /\ run.send_ok
                       THEN "send_message" ELSE "reply_text",
               text |-> "final_messages[-1].content",
               keyboard |-> Keyboard(run.structured)]

----------------------------------------------------------------------------
(* button_callback *)

\* the try block of the request branch was not entered
NotParsed == [ok |-> FALSE, error |-> "none"]
\* the except branch that shows nothing
SilentEdit == [text |-> "", message |-> None]
NoEdit == [text |-> "", message |-> None]
ErrorEdit ==
    [text |-> "Sorry, there was an error processing your request.", message |-> None]
CancelEdit == [text |-> "Request cancelled.", message |-> None]
ResultEdit(m) == [text |-> "Request result: ", message |-> Some(m)]

\* lines 336-365, for a non-empty callback_data: the message edit and the
\* backend log after the handler
Dispatch(callback_data, outcome, log) ==
    IF StartsWith(callback_data, REQUEST_PREFIX)
    THEN LET d == Decode(callback_data)
         IN  IF ~d.ok
             THEN [parsed |-> d, edit |-> ErrorEdit, log |-> log]
             ELSE [parsed |-> d,
                   edit |-> IF outcome = "raised" THEN ErrorEdit
                            ELSE ResultEdit(ResultMessage(d.media_id, d.media_type,
                                                          d.seasons, outcome)),
                   log |-> Post(log, Payload(d.media_id, d.media_type, d.seasons),
                                callback_data)]
    ELSE IF callback_data = CANCEL_REQUEST
    THEN [parsed |-> NotParsed, edit |-> CancelEdit, log |-> log]
    ELSE [parsed |-> NotParsed, edit |-> NoEdit, log |-> log]

\* One inbound update handled by button_callback.  query is
\* update.callback_query: None, or Some(data) with data None or Some(string);
\* outcome is how the backend call ends if the handler makes one.
ButtonCallback(query, outcome) ==
    IF query.none
    THEN /\ last' = [kind |-> "callback", data |-> None, answered |-> FALSE,
                     parsed |-> NotParsed, edit |-> NoEdit, outcome |-> "none"]
         /\ requests' = requests
    ELSE IF ~TruthySeq(query.v)
    THEN /\ last' = [kind |-> "callback", data |-> query.v, answered |-> TRUE,
                     parsed |-> NotParsed, edit |-> NoEdit, outcome |-> "none"]
         /\ requests' = requests
    ELSE LET r == Dispatch(query.v.v, outcome, requests)
         IN  /\ last' = [kind |-> "callback", data |-> query.v, answered |-> TRUE,
                         parsed |-> r.parsed, edit |-> r.edit,
                         outcome |-> IF r.log = requests THEN "none" ELSE outcome]
             /\ requests' = r.log

----------------------------------------------------------------------------
(* Inputs *)

Str(n) == IntStr(n)
Token(segments) == Join(US, segments)
ANIME == <<"a", "n", "i", "m", "e">>
X == <<"x">>

\* callback_data a client can deliver that no button of the bot carries
CraftedData ==
    { Token(<<REQUEST, MOVIE, Str(123)>>),
      Token(<<REQUEST, TV, Str(77), Str(1) \o DASH \o Str(3)>>),
      Token(<<REQUEST, MOVIE, Str(5), Str(1) \o DASH \o Str(3)>>),
      Token(<<REQUEST, ANIME, Str(5)>>),
      Token(<<REQUEST, TV, Str(0)>>),
      Token(<<REQUEST, TV, Str(-5)>>),
      Token(<<REQUEST, TV, <<"+", "5">> >>),
      Token(<<REQUEST, TV, Str(5), X>>),
      Token(<<REQUEST, TV, Str(5), Str(1) \o DASH \o X \o DASH \o Str(3)>>),
      Token(<<REQUEST, TV, Str(5), <<"^2">> >>),
      Token(<<REQUEST, TV>>),
      Token(<<REQUEST, <<>> >>),
      Token(<<REQUEST, TV, X>>),
      Token(<<REQUEST, TV, <<>> >>),
      Token(<<REQUEST, TV, Str(1) \o DASH \o Str(3)>>),
      REQUEST \o TV \o US \o Str(5),
      X \o Token(<<REQUEST, TV, Str(5)>>),
      CANCEL_REQUEST,
      CANCEL_REQUEST \o X,
      X }

CraftedQueries ==
    {None, Some(None), Some(Some(<<>>))} \cup {Some(Some(d)) : d \in CraftedData}

\* the buttons under the bot's latest reply, and the button pressed last
\* (a second tap is delivered before the edit removes the keyboard)
Pressable ==
    IF last.kind = "message" /\ ~last.keyboard.none
    THEN {Some(Some(last.keyboard.v.confirm)), Some(Some(last.keyboard.v.cancel))}
    ELSE IF last.kind = "callback" /\ TruthySeq(last.data)
    THEN {Some(last.data)}
    ELSE {}

Statuses == {"none", "Available", "Requested", "Not Requested"}

Response(action, media_id, media_type, seasons, poster) ==
    Some([action |-> action, media_id |-> media_id, media_type |-> media_type,
          seasons |-> seasons, poster_url |-> poster])

Run(message, raises, final, structured, status, send_ok) ==
    [message |-> message, raises |-> raises, final_messages |-> final,
     structured |-> structured, status |-> status, send_ok |-> send_ok]

\* the runs in which the handler never reads a structured response
BareRuns ==
    { Run(FALSE, FALSE, FALSE, None, "none", TRUE),
      Run(TRUE, TRUE, FALSE, None, "none", TRUE),
      Run(TRUE, FALSE, FALSE, None, "none", TRUE),
      Run(TRUE, FALSE, TRUE, None, "none", TRUE) }

RECURSIVE Ascending(_)
Ascending(S) ==
    IF S = {} THEN <<>>
    ELSE LET m == CHOOSE x \in S : \A y \in S : x <= y
         IN  <<m>> \o Ascending(S \ {m})

Reverse(xs) == [i \in 1..Len(xs) |-> xs[Len(xs) + 1 - i]]
Rotate(xs) == IF xs = <<>> THEN xs ELSE Tail(xs) \o <<Head(xs)>>

SeasonNumbers == (1..MaxSeasonNo) \cup {10, 99}

\* season lists of distinct numbers, each set in three orders
SeasonLists ==
    UNION { {Ascending(S), Reverse(Ascending(S)), Rotate(Ascending(S))} :
            S \in {T \in SUBSET SeasonNumbers :
                     Cardinality(T) >= 1 /\ Cardinality(T) <= MaxSeasons} }

\* the decision surface: every combination of the fields handle_message tests
DecisionRuns ==
    { Run(TRUE, FALSE, TRUE, Response(a, id, t, ss, p[1]), st, p[2]) :
        a \in {None, Some("offer_request"), Some("other")},
        id \in {None, Some(0), Some(77), Some(123), Some(-5)},
        t \in {None, Some(<<>>), Some(MOVIE), Some(TV), Some(ANIME)},
        ss \in {None, Some(<<>>), Some(<<3, 1>>)},
        p \in {<<FALSE, TRUE>>, <<TRUE, TRUE>>, <<TRUE, FALSE>>},
        st \in Statuses }

\* offers over the season lists
OfferRuns ==
    { Run(TRUE, FALSE, TRUE,
          Response(Some("offer_request"), Some(id), Some(t), Some(ss), FALSE),
          "Not Requested", TRUE) :
        id \in {77, 123, -5}, t \in {MOVIE, TV}, ss \in SeasonLists }

\* an offer of twenty seasons of a show with a ten-digit id
LongOfferRuns ==
    { Run(TRUE, FALSE, TRUE,
          Response(Some("offer_request"), Some(2147483647), Some(TV),
                   Some(Ascending(1..20)), FALSE),
          "Not Requested", TRUE) }

UnitRuns == BareRuns \cup DecisionRuns \cup OfferRuns \cup LongOfferRuns

\* the messages of the replay specification: two offers, a status report,
\* and the runs without a structured response
ReplayRuns ==
    BareRuns \cup
    { Run(TRUE, FALSE, TRUE,
          Response(Some("offer_request"), Some(123), Some(MOVIE), None, FALSE),
          "Not Requested", TRUE),
      Run(TRUE, FALSE, TRUE,
          Response(Some("offer_request"), Some(77), Some(TV), Some(<<3, 1>>), TRUE),
          "Not Requested", TRUE),
      Run(TRUE, FALSE, TRUE,
          Response(None, None, None, None, TRUE), "Available", TRUE) }

ReplayQueries ==
    { None, Some(None), Some(Some(CANCEL_REQUEST)),
      Some(Some(Token(<<REQUEST, TV>>))),
      Some(Some(Token(<<REQUEST, TV, Str(5), X>>))),
      Some(Some(X)) }

----------------------------------------------------------------------------
(* Specifications *)

Handlers == 1..MaxHandlers

Init ==
    /\ last = [kind |-> "init"]
    /\ requests = <<>>
    /\ loop = [blocked |-> 0,
               pc |-> [h \in Handlers |-> "absent"],
               update |-> [h \in Handlers |-> None]]

\* Spec: any interleaving of messages and button events, the same button
\* pressed again included, until the backend has received MaxRequests calls
Message ==
    /\ \E run \in ReplayRuns : HandleMessage(run)
    /\ UNCHANGED loop

Callback ==
    \E query \in ReplayQueries \cup Pressable : \E outcome \in Outcomes :
        /\ ButtonCallback(query, outcome)
        /\ Len(requests') <= MaxRequests
        /\ UNCHANGED loop

Next == Message \/ Callback

Spec == Init /\ [][Next]_vars

\* SpecUnit: one unit of work of each handler over the wide input sets: a
\* message, then one button event (a button of the reply, or crafted data)
UnitMessage ==
    /\ last.kind = "init"
    /\ \E run \in UnitRuns : HandleMessage(run)
    /\ UNCHANGED loop

UnitCallback ==
    /\ last.kind # "callback"
    /\ \E query \in CraftedQueries \cup Pressable : \E outcome \in Outcomes :
         ButtonCallback(query, outcome)
    /\ UNCHANGED loop

NextUnit == UnitMessage \/ UnitCallback

SpecUnit == Init /\ [][NextUnit]_vars

----------------------------------------------------------------------------
(* search_overseerr *)

\* line 55: results[:2]
MaxCandidates == 2
\* results in one backend answer
MaxResults == 4
\* backend status codes 0..MaxStatusCode (5 is Available, 2-4 are in progress)
MaxStatusCode == 6

PERSON == <<"p", "e", "r", "s", "o", "n">>

\* the status derived with the in-progress codes tested first
DeriveStatusRequestedFirst(media_info) ==
    IF media_info.none THEN "Not Requested"
    ELSE LET media_status == media_info.v.status
             media_status_4k == media_info.v.status4k
         IN  IF media_status \in {Some(2), Some(3), Some(4)}
                \/ media_status_4k \in {Some(2), Some(3), Some(4)}
             THEN "Requested"
             ELSE IF media_status = Some(5) \/ media_status_4k = Some(5)
             THEN "Available"
             ELSE "Not Requested"

\* lines 56-70: the status of one result
DeriveStatus(media_info) ==
    IF media_info.none THEN "Not Requested"
    ELSE LET media_status == media_info.v.status
             media_status_4k == media_info.v.status4k
         IN  IF media_status = Some(5) \/ media_status_4k = Some(5)
             THEN "Available"
             ELSE IF media_status \in {Some(2), Some(3), Some(4)}
                     \/ media_status_4k \in {Some(2), Some(3), Some(4)}
             THEN "Requested"
             ELSE "Not Requested"

\* s[:n]
Take(xs, n) == SubSeq(xs, 1, IF Len(xs) < n THEN Len(xs) ELSE n)

\* lines 72-85: one entry of processed_results
Processed(r) ==
    [title |-> IF r.title.none THEN r.name ELSE r.title,
     year |-> IF r.releaseDate.none THEN <<>> ELSE Take(r.releaseDate.v, 4),
     media_id |-> r.id,
     media_type |-> r.mediaType,
     overview |-> r.overview,
     status |-> DeriveStatus(r.mediaInfo),
     poster_url |-> IF r.posterPath.none THEN None
                    ELSE Some(<<"https://image.tmdb.org/t/p/w600_and_h900_bestv2",
                                r.posterPath.v>>)]

\* the results cut to two before the media type filter
KeptTruncatedFirst(results, media_type) ==
    IF Len(media_type) > 0
    THEN SelectSeq(Take(results, MaxCandidates), LAMBDA r : r.mediaType = media_type)
    ELSE Take(results, MaxCandidates)

\* lines 50-55: the results the loop goes through
Kept(results, media_type) ==
    Take(IF Len(media_type) > 0
         THEN SelectSeq(results, LAMBDA r : r.mediaType = media_type)
         ELSE results,
         MaxCandidates)

\* lines 48-94: what the call gives its caller.  resp is how httpx.get ends:
\* a 2xx answer with results, another answer with a body text, or an
\* exception (no answer), which the function does not catch
SearchReturn(resp, media_type) ==
    IF resp.kind = "transport_error"
    THEN [raised |-> TRUE, value |-> <<>>]
    ELSE IF resp.kind = "success"
    THEN LET kept == Kept(resp.results, media_type)
         IN  [raised |-> FALSE, value |-> [i \in 1..Len(kept) |-> Processed(kept[i])]]
    ELSE [raised |-> FALSE, value |-> <<resp.text>>]

\* One call of the search tool by the agent.
SearchOverseerr(resp, media_type) ==
    /\ last' = [kind |-> "search", resp |-> resp, media_type |-> media_type,
                returned |-> SearchReturn(resp, media_type)]
    /\ requests' = requests

\* a raw result: the id tells its rank, 101 for the first
RawResult(i, media_type, media_info) ==
    [id |-> 100 + i, mediaType |-> media_type, mediaInfo |-> media_info,
     title |-> IF media_type = MOVIE THEN Some("title") ELSE None,
     name |-> IF media_type = MOVIE THEN None ELSE Some("name"),
     releaseDate |-> IF media_type = MOVIE
                     THEN Some(<<"2", "0", "2", "3", "-", "0", "5", "-", "0", "1">>)
                     ELSE None,
     overview |-> Some("overview"),
     posterPath |-> IF i = 1 THEN Some("/poster.jpg") ELSE None]

Success(results) == [kind |-> "success", results |-> results, text |-> ""]

\* answers of 0..MaxResults results of mixed media types, none with mediaInfo
RankedAnswers ==
    { Success([i \in 1..n |-> RawResult(i, types[i], None)]) :
        n \in 0..MaxResults,
        types \in [1..MaxResults -> {MOVIE, TV, PERSON}] }

StatusCodes == {None} \cup {Some(c) : c \in 0..MaxStatusCode}

\* answers of one movie with every pair of status codes
StatusAnswers ==
    { Success(<<RawResult(1, MOVIE, Some([status |-> c, status4k |-> c4]))>>) :
        c \in StatusCodes, c4 \in StatusCodes }

FailedAnswers ==
    { [kind |-> "http_error", results |-> <<>>, text |-> "Internal Server Error"],
      [kind |-> "transport_error", results |-> <<>>, text |-> ""] }

SearchAnswers == RankedAnswers \cup StatusAnswers \cup FailedAnswers

\* SpecSearch: one call of search_overseerr over the backend answers
Search ==
    /\ last.kind = "init"
    /\ \E resp \in SearchAnswers : \E media_type \in {<<>>, MOVIE, TV} :
         SearchOverseerr(resp, media_type)
    /\ UNCHANGED loop

NextSearch == Search

SpecSearch == Init /\ [][NextSearch]_vars

----------------------------------------------------------------------------
(* The event loop *)

\* run_polling drives one event loop on one thread.  A handler is a
\* coroutine of that loop; request_overseerr is declared async but calls the
\* synchronous requests.post (line 123), which returns only when the backend
\* has answered: until then the thread runs nothing else.  loop.blocked is
\* the handler inside requests.post, 0 when there is none.

\* the updates given to the loop: three button presses and a message
LoopUpdates ==
    { [type |-> "callback", query |-> Some(Some(Token(<<REQUEST, MOVIE, Str(123)>>))),
       run |-> None],
      [type |-> "callback",
       query |-> Some(Some(Token(<<REQUEST, TV, Str(77), Str(1) \o DASH \o Str(3)>>))),
       run |-> None],
      [type |-> "callback", query |-> Some(Some(CANCEL_REQUEST)), run |-> None],
      [type |-> "message", query |-> None,
       run |-> Some(Run(TRUE, FALSE, TRUE,
                        Response(Some("offer_request"), Some(77), Some(TV),
                                 Some(<<3, 1>>), FALSE),
                        "Not Requested", TRUE))] }

\* whether button_callback reaches request_overseerr for this query
ReachesPost(query) ==
    /\ ~query.none
    /\ TruthySeq(query.v)
    /\ StartsWith(query.v.v, REQUEST_PREFIX)
    /\ Decode(query.v.v).ok

\* an update of another user reaches the bot
Arrive(h, update) ==
    /\ loop.pc[h] = "absent"
    /\ loop' = [loop EXCEPT !.pc[h] = "queued", !.update[h] = Some(update)]
    /\ UNCHANGED <<last, requests>>

\* the loop starts the handler of a queued update: it runs to its end, or
\* into requests.post
Begin(h) ==
    /\ loop.pc[h] = "queued"
    /\ loop.blocked = 0
    /\ LET update == loop.update[h].v
       IN  IF update.type = "message"
           THEN /\ HandleMessage(update.run.v)
                /\ loop' = [loop EXCEPT !.pc[h] = "done"]
           ELSE IF ReachesPost(update.query)
           THEN /\ loop' = [loop EXCEPT !.pc[h] = "posting", !.blocked = h]
                /\ UNCHANGED <<last, requests>>
           ELSE /\ ButtonCallback(update.query, "ok")
                /\ loop' = [loop EXCEPT !.pc[h] = "done"]

\* requests.post ends: the handler goes on to its end and frees the thread
Respond(h, outcome) ==
    /\ loop.pc[h] = "posting"
    /\ ButtonCallback(loop.update[h].v.query, outcome)
    /\ loop' = [loop EXCEPT !.pc[h] = "done", !.blocked = 0]

Arrival == \E h \in Handlers : \E update \in LoopUpdates : Arrive(h, update)
Start == \E h \in Handlers : Begin(h)
BackendAnswer == \E h \in Handlers : \E outcome \in Outcomes : Respond(h, outcome)

NextLoop == Arrival \/ Start \/ BackendAnswer

SpecLoop == Init /\ [][NextLoop]_vars

----------------------------------------------------------------------------
(* Properties *)

\* the step just taken was button_callback handling non-empty callback_data
Delivered == last'.kind = "callback" /\ TruthySeq(last'.data)

\* the callback_data of the callback handled last
Data == last.data.v

TOKEN_TV_77_1_3 ==
    <<"r", "e", "q", "u", "e", "s", "t", "_", "t", "v", "_", "7", "7", "_",
      "1", "-", "3">>
TOKEN_MOVIE_123 ==
    <<"r", "e", "q", "u", "e", "s", "t", "_", "m", "o", "v", "i", "e", "_",
      "1", "2", "3">>
TOKEN_MOVIE_5_1_3 ==
    <<"r", "e", "q", "u", "e", "s", "t", "_", "m", "o", "v", "i", "e", "_",
      "5", "_", "1", "-", "3">>

\* s is the text of an integer: blanks, an optional sign, decimal digits, blanks
IntegerText(s) ==
    \E a \in 1..Len(s) : \E b \in a..Len(s) :
        /\ \A i \in 1..(a - 1) : s[i] = " "
        /\ \A i \in (b + 1)..Len(s) : s[i] = " "
        /\ LET d == IF s[a] \in {"+", "-"} THEN a + 1 ELSE a
           IN  d <= b /\ \A i \in d..b : s[i] \in AsciiDigits

\* C1 as stated: a confirm token is consumed exactly once, so the backend
\* never receives two request calls issued for the same callback_data.
C1_ConsumedOnce ==
    \A i \in 1..Len(requests) : \A j \in 1..Len(requests) :
        requests[i].via = requests[j].via => i = j

\* C1 as amended: a confirm token is not consumed.  When a decodable confirm
\* token that was already executed is delivered again, button_callback
\* executes it again: the backend receives exactly one more request call,
\* issued for that same token.
C1_SecondDeliveryExecutes ==
    [][ ( /\ Delivered
          /\ last'.parsed.ok
          /\ \E i \in 1..Len(requests) : requests[i].via = last'.data.v )
        => /\ Len(requests') = Len(requests) + 1
           /\ SubSeq(requests', 1, Len(requests)) = requests
           /\ requests'[Len(requests')].via = last'.data.v ]_vars

\* the same token executed twice
C1_Witness ==
    \E i \in 1..Len(requests) : \E j \in 1..Len(requests) :
        i < j /\ requests[i].via = requests[j].via

\* a season list of C2: 1 to 5 distinct positive integers at most 99
RoundTripSeasons(ss) ==
    /\ Len(ss) >= 1 /\ Len(ss) <= 5
    /\ \A i \in 1..Len(ss) : ss[i] >= 1 /\ ss[i] <= 99
    /\ \A i \in 1..Len(ss) : \A j \in 1..Len(ss) : ss[i] = ss[j] => i = j

\* C2: pressing the confirm button of an offer decodes the token the offer
\* encoded.  For a tv offer with a positive id and 1 to 5 distinct seasons in
\* 1..99 the decoded media type, id and set of seasons are the offer's; for a
\* movie offer with a positive id they are movie, that id and no seasons.
C2_RoundTrip ==
    [][ ( /\ last.kind = "message"
          /\ ~last.keyboard.none
          /\ Delivered
          /\ last'.data.v = last.keyboard.v.confirm )
        => LET r == last.structured.v
               id == r.media_id.v
               ss == IF TruthySeq(r.seasons) THEN r.seasons.v ELSE <<>>
               d == last'.parsed
           IN  /\ (r.media_type.v = TV /\ id > 0 /\ RoundTripSeasons(ss))
                  => /\ d.ok
                     /\ d.media_type = TV
                     /\ d.media_id = id
                     /\ ~d.seasons.none
                     /\ Range(d.seasons.v) = Range(ss)
               /\ (r.media_type.v = MOVIE /\ id > 0)
                  => /\ d.ok
                     /\ d.media_type = MOVIE
                     /\ d.media_id = id
                     /\ d.seasons.none
                     /\ (id = 123 => last'.data.v = TOKEN_MOVIE_123) ]_vars

\* a tv token of five seasons, two of them of two digits, decoded
C2_Witness ==
    /\ last.kind = "callback"
    /\ TruthySeq(last.data)
    /\ last.parsed.ok
    /\ last.parsed.media_type = TV
    /\ last.parsed.media_id = 77
    /\ ~last.parsed.seasons.none
    /\ Range(last.parsed.seasons.v) = {1, 2, 3, 10, 99}

\* C3: the confirm token of an offer is "request_" + media_type + "_" +
\* media_id, followed by "_" and the seasons joined by "-" in ascending order
\* exactly when media_type is tv and the season list is non-empty; tv 77 with
\* seasons [3, 1] gives "request_tv_77_1-3"; a movie gets no suffix.
C3_EncodingFormat ==
    (last.kind = "message" /\ ~last.keyboard.none)
    => LET r == last.structured.v
           t == r.media_type.v
           ss == IF TruthySeq(r.seasons) THEN r.seasons.v ELSE <<>>
           head == REQUEST_PREFIX \o t \o US \o IntStr(r.media_id.v)
           token == last.keyboard.v.confirm
           rest == SubSeq(token, Len(head) + 1, Len(token))
           nums == Split(Tail(rest), "-")
       IN  /\ StartsWith(token, head)
           /\ (rest # <<>>) <=> (t = TV /\ ss # <<>>)
           /\ rest # <<>>
              => /\ Head(rest) = "_"
                 /\ Len(nums) = Len(ss)
                 /\ \A i \in 1..Len(nums) : IntegerText(nums[i])
                 /\ {PyInt(nums[i]).v : i \in 1..Len(nums)} = Range(ss)
                 /\ \A i \in 1..(Len(nums) - 1) :
                        PyInt(nums[i]).v <= PyInt(nums[i + 1]).v
           /\ (t = TV /\ r.media_id.v = 77 /\ ss = <<3, 1>>)
              => token = TOKEN_TV_77_1_3
           /\ t = MOVIE => rest = <<>>

\* the offer of tv 77, seasons [3, 1]
C3_Witness ==
    /\ last.kind = "message"
    /\ ~last.keyboard.none
    /\ last.structured.v.seasons = Some(<<3, 1>>)
    /\ last.keyboard.v.confirm = TOKEN_TV_77_1_3

\* callback_data "request_movie_<id>_<seasons>": a fourth segment on a movie
MovieWithSeasons(data) ==
    LET parts == Split(data, "_")
    IN  /\ Len(parts) >= 4
        /\ parts[1] = REQUEST
        /\ parts[2] = MOVIE
        /\ IntegerText(parts[3])

\* C4 as stated: a movie token with a fourth segment is rejected: the
\* handler shows the error text and the backend receives no request call.
C4_MovieSeasonsRejected ==
    (last.kind = "callback" /\ TruthySeq(last.data) /\ MovieWithSeasons(Data))
    => /\ last.edit = ErrorEdit
       /\ requests = <<>>

\* C4 as amended: a movie token with a fourth segment is accepted and the
\* segment ignored: decoding succeeds with no seasons, and the backend
\* receives one request call for that movie id, without a seasons field.
C4_MovieSeasonsIgnored ==
    (last.kind = "callback" /\ TruthySeq(last.data) /\ MovieWithSeasons(Data))
    => /\ last.parsed.ok
       /\ last.parsed.media_type = MOVIE
       /\ last.parsed.seasons.none
       /\ Len(requests) = 1
       /\ requests[1].via = Data
       /\ requests[1].payload.mediaType = MOVIE
       /\ requests[1].payload.seasons.none
       /\ (Data = TOKEN_MOVIE_5_1_3 => requests[1].payload.mediaId = 5)

\* "request_movie_5_1-3" handled
C4_Witness ==
    /\ last.kind = "callback"
    /\ last.data = Some(TOKEN_MOVIE_5_1_3)
    /\ Len(requests) = 1

\* callback_data "request_<t>_<id>..." whose media type is neither movie nor tv
UnknownMediaType(data) ==
    LET parts == Split(data, "_")
    IN  /\ Len(parts) >= 3
        /\ parts[1] = REQUEST
        /\ parts[2] \notin {MOVIE, TV}

\* C5: the media type of a token is validated: a token whose second segment
\* is neither "movie" nor "tv" gets the error text and no request call, and
\* every request call the backend receives carries mediaType movie or tv.
C5_MediaTypeValidated ==
    /\ (last.kind = "callback" /\ TruthySeq(last.data) /\ UnknownMediaType(Data))
       => (last.edit = ErrorEdit /\ last.outcome = "none")
    /\ \A i \in 1..Len(requests) : requests[i].payload.mediaType \in {MOVIE, TV}

\* callback_data "request_<t>_<id>..." whose id is an integer below 1
NonPositiveId(data) ==
    LET parts == Split(data, "_")
    IN  /\ Len(parts) >= 3
        /\ parts[1] = REQUEST
        /\ IntegerText(parts[3])
        /\ \/ parts[3] = <<"0">>
           \/ Head(parts[3]) = "-"

\* C6: the media id of a token is a positive integer: a token whose third
\* segment is zero or negative gets the error text and no request call, and
\* every request call the backend receives carries a mediaId above zero.
C6_MediaIdPositive ==
    /\ (last.kind = "callback" /\ TruthySeq(last.data) /\ NonPositiveId(Data))
       => (last.edit = ErrorEdit /\ last.outcome = "none")
    /\ \A i \in 1..Len(requests) : requests[i].payload.mediaId > 0

\* callback_data that is no request token: the prefix "request_" is missing,
\* or there is no third segment, or the third segment is no integer
Malformed(data) ==
    LET parts == Split(data, "_")
    IN  \/ Len(data) < 8
        \/ SubSeq(data, 1, 8) # <<"r", "e", "q", "u", "e", "s", "t", "_">>
        \/ Len(parts) < 3
        \/ ~IntegerText(parts[3])

\* C7: malformed callback_data never reaches the backend: handling it leaves
\* the backend's request log as it was.
C7_MalformedNeverPosted ==
    [][ (Delivered /\ Malformed(last'.data.v)) => requests' = requests ]_vars

\* a token without the prefix, one without a third segment and one whose
\* third segment is no integer have each been handled
C7_Witness ==
    /\ last.kind = "callback"
    /\ TruthySeq(last.data)
    /\ Malformed(Data)
    /\ Split(Data, "_")[1] = REQUEST
    /\ Len(Split(Data, "_")) >= 3
    /\ last.edit = ErrorEdit

\* C8: the cancellation token gets the fixed text "Request cancelled." and
\* the backend receives no request call, whatever was handled before.
C8_CancelNoBackendCall ==
    [][ (Delivered /\ last'.data.v = CANCEL_REQUEST)
        => (last'.edit = CancelEdit /\ requests' = requests) ]_vars

\* a cancellation handled after the backend received a request
C8_Witness ==
    /\ last.kind = "callback"
    /\ last.data = Some(CANCEL_REQUEST)
    /\ last.edit = CancelEdit
    /\ Len(requests) >= 1

\* C9: handling one decodable request token issues exactly one backend
\* request call, carrying the media id, media type and seasons decoded from
\* the token (the seasons field only if there are seasons), and when the call
\* returns, its result message is what the user is shown.
C9_OneCallPerToken ==
    [][ (Delivered /\ last'.parsed.ok)
        => LET d == last'.parsed
               call == requests'[Len(requests')]
           IN  /\ Len(requests') = Len(requests) + 1
               /\ SubSeq(requests', 1, Len(requests)) = requests
               /\ call.via = last'.data.v
               /\ call.payload.mediaId = d.media_id
               /\ call.payload.mediaType = d.media_type
               /\ call.payload.seasons = d.seasons
               /\ d.seasons.none \/ Len(d.seasons.v) > 0
               /\ (last'.data.v = TOKEN_TV_77_1_3
                   => call.payload = [mediaId |-> 77, mediaType |-> TV,
                                      seasons |-> Some(<<1, 3>>)])
               /\ (last'.data.v = TOKEN_MOVIE_123
                   => call.payload = [mediaId |-> 123, mediaType |-> MOVIE,
                                      seasons |-> None])
               /\ last'.outcome \in Outcomes
               /\ last'.outcome # "raised"
                  => /\ last'.edit.text = "Request result: "
                     /\ ~last'.edit.message.none
                     /\ last'.edit.message.v.media_id = d.media_id
                     /\ last'.edit.message.v.media_type = d.media_type
                     /\ (last'.edit.message.v.kind = "Successfully requested")
                        <=> (last'.outcome = "ok")
                     /\ last'.outcome = "ok"
                        => last'.edit.message.v.season_text = d.seasons ]_vars

\* the tv token with seasons executed, its result shown
C9_Witness ==
    /\ last.kind = "callback"
    /\ last.data = Some(TOKEN_TV_77_1_3)
    /\ last.outcome = "ok"
    /\ last.edit.text = "Request result: "
    /\ Len(requests) = 1
    /\ requests[1].payload.seasons = Some(<<1, 3>>)

\* C10: a reply about a selected result that is Available or Requested
\* carries no confirm/cancel keyboard, whatever the structured response holds.
C10_OfferOnlyNotRequested ==
    (last.kind = "message" /\ last.status \in {"Available", "Requested"})
    => last.keyboard.none

\* C11: a failed search (a non-2xx answer or a transport failure) returns no
\* candidates: the value handed to the caller is never a non-empty list.
C11_FailedSearchReturnsNothing ==
    (last.kind = "search" /\ last.resp.kind # "success")
    => Len(last.returned.value) = 0

\* the status C12 states for a pair of codes: Available before Requested
StatedStatus(media_info) ==
    IF media_info.none THEN "Not Requested"
    ELSE LET codes == {media_info.v.status, media_info.v.status4k}
         IN  IF Some(5) \in codes THEN "Available"
             ELSE IF codes \cap {Some(2), Some(3), Some(4)} # {} THEN "Requested"
             ELSE "Not Requested"

\* the raw result of the answer that a returned candidate was made from
RawOf(candidate) ==
    CHOOSE r \in Range(last.resp.results) : r.id = candidate.media_id

\* C12: every returned candidate's status is Available if either backend
\* code is 5, else Requested if either is 2, 3 or 4, else Not Requested; a
\* result without mediaInfo is Not Requested; status 2 with status4k 5 is
\* Available.
C12_StatusDerivation ==
    (last.kind = "search" /\ last.resp.kind = "success")
    => \A k \in 1..Len(last.returned.value) :
        LET c == last.returned.value[k]
            info == RawOf(c).mediaInfo
        IN  /\ c.status = StatedStatus(info)
            /\ info.none => c.status = "Not Requested"
            /\ info = Some([status |-> Some(2), status4k |-> Some(5)])
               => c.status = "Available"
            /\ info = Some([status |-> None, status4k |-> None])
               => c.status = "Not Requested"

\* status 2 with status4k 5 searched
C12_Witness ==
    /\ last.kind = "search"
    /\ Len(last.returned.value) = 1
    /\ RawOf(last.returned.value[1]).mediaInfo
         = Some([status |-> Some(2), status4k |-> Some(5)])
    /\ last.returned.value[1].status = "Available"

\* result i of the answer is of the media type asked for (any, when none is)
Matches(i) ==
    Len(last.media_type) = 0 \/ last.resp.results[i].mediaType = last.media_type

\* how many of the first i results match
MatchesUpTo(i) == Cardinality({j \in 1..i : Matches(j)})

\* C13: a successful search returns at most 2 candidates, all of the media
\* type asked for when one is given, and they are the first two results of
\* that type in the backend's order.
C13_FirstTwoOfType ==
    (last.kind = "search" /\ last.resp.kind = "success")
    => LET n == Len(last.resp.results)
           out == last.returned.value
       IN  /\ Len(out) <= 2
           /\ Len(out) = IF MatchesUpTo(n) < 2 THEN MatchesUpTo(n) ELSE 2
           /\ \A k \in 1..Len(out) :
                /\ Len(last.media_type) > 0 => out[k].media_type = last.media_type
                /\ \E i \in 1..n :
                     /\ Matches(i)
                     /\ MatchesUpTo(i) = k
                     /\ out[k].media_id = last.resp.results[i].id

\* two movies kept that the backend ranked after a tv show and a person
C13_Witness ==
    /\ last.kind = "search"
    /\ last.media_type = MOVIE
    /\ Len(last.resp.results) = 4
    /\ last.resp.results[1].mediaType = TV
    /\ last.resp.results[2].mediaType = PERSON
    /\ Len(last.returned.value) = 2
    /\ last.returned.value[1].media_id = 103
    /\ last.returned.value[2].media_id = 104

\* C14: the body of a backend request holds a seasons field only when its
\* mediaType is tv and the season list is non-empty; a movie request never
\* holds one.
C14_SeasonsOnlyForTv ==
    \A i \in 1..Len(requests) :
        LET body == requests[i].payload
        IN  /\ (~body.seasons.none)
               => (body.mediaType = TV /\ Len(body.seasons.v) > 0)
            /\ body.mediaType = MOVIE => body.seasons.none

\* tv 123 requested with the seasons of its offer, 2 and 10
C14_Witness ==
    /\ last.kind = "callback"
    /\ last.data = Some(Token(<<REQUEST, TV, Str(123), Str(2) \o DASH \o Str(10)>>))
    /\ Len(requests) = 1
    /\ requests[1].payload.mediaType = TV
    /\ requests[1].payload.seasons = Some(<<2, 10>>)

\* C15: no confirm button carries callback_data longer than the 64 bytes
\* the chat transport accepts.
C15_TokenWithinLimit ==
    (last.kind = "message" /\ ~last.keyboard.none)
    => Len(last.keyboard.v.confirm) <= 64

\* C17: every non-empty callback_data that is neither a decodable request
\* token nor the cancellation literal ends with the error text shown.
C17_MalformedSurfaced ==
    ( /\ last.kind = "callback"
      /\ TruthySeq(last.data)
      /\ Malformed(Data)
      /\ Data # CANCEL_REQUEST )
    => last.edit.text = "Sorry, there was an error processing your request."

\* the pieces of a season segment that are integers, as numbers, in order
IntegerPieces(segment) ==
    LET kept == SelectSeq(Split(segment, "-"), IntegerText)
    IN  [i \in 1..Len(kept) |-> PyInt(kept[i]).v]

\* callback_data "request_tv_<id>_<seasons>..."
TvWithSeasons(data) ==
    LET parts == Split(data, "_")
    IN  /\ Len(parts) >= 4
        /\ parts[1] = REQUEST
        /\ parts[2] = TV
        /\ IntegerText(parts[3])

\* C19: a tv token with a season segment always decodes: the pieces that
\* are no integers are dropped, the others kept in order; with none left the
\* request is issued without a seasons field.
C19_PermissiveSeasons ==
    (last.kind = "callback" /\ TruthySeq(last.data) /\ TvWithSeasons(Data))
    => LET pieces == IntegerPieces(Split(Data, "_")[4])
       IN  /\ last.parsed.ok
           /\ last.parsed.seasons = IF pieces = <<>> THEN None ELSE Some(pieces)
           /\ Len(requests) = 1
           /\ requests[1].payload.seasons = last.parsed.seasons

\* C20: every callback_data starting with "request_" ends with one edit of
\* the message: "Request result: ..." when decoding succeeded and the backend
\* call returned, and the fixed error text when decoding or the backend call
\* raised.
C20_NoFailureEscapes ==
    [][ ( /\ Delivered
          /\ Len(last'.data.v) >= 8
          /\ SubSeq(last'.data.v, 1, 8) = <<"r", "e", "q", "u", "e", "s", "t", "_">> )
        => /\ last'.edit.text \in
                {"Request result: ",
                 "Sorry, there was an error processing your request."}
           /\ (last'.edit.text = "Request result: ")
              <=> (last'.parsed.ok /\ last'.outcome \in {"ok", "failed"})
           /\ (last'.edit.text = "Request result: ") <=> ~last'.edit.message.none
           /\ (~last'.parsed.ok) => requests' = requests ]_vars

\* a backend call that raised, the error text shown
C20_Witness ==
    /\ last.kind = "callback"
    /\ TruthySeq(last.data)
    /\ last.parsed.ok
    /\ last.outcome = "raised"
    /\ last.edit.text = "Sorry, there was an error processing your request."
    /\ Len(requests) = 1

\* C16: a backend call in flight does not hold back the other users: while
\* one handler waits in its backend request call, the loop can start the
\* handler of every update that is queued.
C16_HandlersNotSerialized ==
    \A h \in Handlers : \A g \in Handlers :
        (loop.pc[h] = "posting" /\ loop.pc[g] = "queued") => ENABLED Begin(g)

====
